---------------------------- MODULE Spec2Model ----------------------------
(***************************************************************************)
(* GOST 34.12-2015 "Kuznechik" as implemented in gost3412.py: the module   *)
(* level precalculations (PIinv, GF, C), the linear transform L and its    *)
(* inverse, the key schedule of GOST3412Kuznechik.__init__ and the         *)
(* encrypt/decrypt loops.  Python objects indexed from 0 are modelled as   *)
(* sequences indexed from 1 (blocks, LC, C, ks) or as functions on 0..255  *)
(* (the tables indexed by a byte: PI, PIinv, GF).                          *)
(***************************************************************************)
EXTENDS Integers, Sequences, FiniteSets, TLC

VARIABLES
    PIinv,    \* module table PIinv (gost3412.py:56)
    GF,       \* module table GF (gost3412.py:80)
    C,        \* module list C of round constants (gost3412.py:112)
    ipc,      \* position of the module-level precalculation code
    ix,       \* loop variable x of the precalculation loops
    key,      \* the key handed to GOST3412Kuznechik(key)
    ks,       \* self.ks of the instance
    ctor,     \* outcome of the constructor call
    pc,       \* per caller: position inside encrypt/decrypt
    op,       \* per caller: which method is running
    arg,      \* per caller: the caller's own block object passed as blk
    blk,      \* per caller: the local variable blk of the call
    i,        \* per caller: loop variable i of the call
    ret,      \* per caller: returned bytes
    orig,     \* per caller: plaintext whose ciphertext is being decrypted
    ncalls,   \* number of calls started on the instance
    lblk,     \* transform runs: the bytearray L / Linv work on
    lhist     \* transform runs: the calls made so far, each with its input

vars == <<PIinv, GF, C, ipc, ix, key, ks, ctor, pc, op, arg, blk, i, ret,
          orig, ncalls, lblk, lhist>>

modvars  == <<PIinv, GF, C, ipc, ix>>
instvars == <<key, ks, ctor>>
callvars == <<pc, op, arg, blk, i, ret, orig, ncalls>>
lvars    == <<lblk, lhist>>

-----------------------------------------------------------------------------
(* Bounds of the model *)

MaxKeySeed   == 1    \* generated 32-byte keys are KeyGen(1..MaxKeySeed, 32)
MaxBlockSeed == 1    \* generated 16-byte blocks are BlockGen(0..MaxBlockSeed, 16)
MaxCalls     == 2    \* calls started on one instance in one behaviour
MaxSchedSeed == 99   \* keys of the constructor runs are SchedKey(0..MaxSchedSeed)
MaxLSeed     == 40   \* generated blocks of the transform runs
MaxLSteps    == 2    \* transforms applied in one transform run

-----------------------------------------------------------------------------
(* Program constants *)

KEYSIZE   == 32
blocksize == 16
ByteMax   == 255
Byte      == 0..ByteMax

LC == <<148, 32, 133, 16, 194, 192, 1, 251, 1, 192, 194, 16, 133, 32, 148, 1>>

PI_list == <<
    159, 22, 243, 168, 16, 239, 32, 153, 130, 191, 125, 220, 228, 81, 154, 143,
    10, 223, 175, 253, 195, 103, 188, 189, 198, 238, 222, 240, 185, 54, 99, 47,
    23, 172, 72, 53, 124, 24, 139, 67, 249, 161, 4, 149, 41, 186, 250, 132,
    133, 0, 44, 51, 57, 66, 234, 200, 2, 28, 212, 187, 117, 129, 193, 237,
    148, 226, 227, 242, 108, 76, 120, 146, 165, 119, 210, 169, 70, 213, 111, 21,
    33, 151, 174, 26, 182, 235, 199, 95, 89, 74, 90, 17, 34, 138, 192, 8,
    64, 141, 49, 155, 93, 39, 109, 65, 203, 206, 236, 255, 233, 104, 82, 83,
    163, 171, 25, 245, 118, 135, 216, 101, 27, 102, 183, 68, 29, 246, 142, 43,
    75, 19, 136, 80, 121, 116, 40, 181, 252, 5, 14, 42, 224, 115, 251, 209,
    218, 3, 58, 244, 127, 15, 112, 180, 6, 221, 97, 1, 140, 211, 229, 46,
    107, 122, 69, 254, 96, 110, 37, 184, 55, 7, 62, 123, 170, 232, 150, 147,
    92, 128, 114, 77, 71, 166, 167, 207, 173, 164, 126, 177, 78, 79, 247, 157,
    30, 196, 131, 225, 52, 219, 63, 156, 85, 137, 179, 241, 215, 87, 231, 214,
    50, 35, 208, 134, 202, 31, 105, 11, 60, 84, 12, 100, 88, 197, 205, 36,
    152, 144, 94, 18, 91, 178, 145, 106, 61, 217, 190, 86, 201, 48, 59, 13,
    248, 73, 160, 113, 9, 20, 158, 230, 56, 38, 204, 45, 194, 176, 98, 162>>

\* PI with one entry mistyped: PI[7] repeats PI[6]
PI_typo == [x \in Byte |-> IF x = 7 THEN PI_list[7] ELSE PI_list[x + 1]]

PI == [x \in Byte |-> PI_list[x + 1]]

-----------------------------------------------------------------------------
(* Integer operators of Python used by the code *)

\* a ^ b on non-negative integers, bit by bit
RECURSIVE XorBits(_, _)
XorBits(a, b) ==
    IF a = 0 THEN b
    ELSE IF b = 0 THEN a
    ELSE (((a % 2) + (b % 2)) % 2) + 2 * XorBits(a \div 2, b \div 2)

\* a ^ b of two bytes, tabulated once
XorTab == [a \in Byte |-> [b \in Byte |-> XorBits(a, b)]]

\* a ^ b: the table for bytes, bit by bit above a byte
RECURSIVE Xor(_, _)
Xor(a, b) ==
    IF a <= ByteMax /\ b <= ByteMax THEN XorTab[a][b]
    ELSE (((a % 2) + (b % 2)) % 2) + 2 * Xor(a \div 2, b \div 2)

Min(a, b) == IF a < b THEN a ELSE b

\* utils.strxor: XOR of two byte strings over the shorter of the two lengths
strxor(a, b) == [n \in 1..Min(Len(a), Len(b)) |-> Xor(a[n], b[n])]

\* bytearray(n): n zero bytes
bytearray(n) == [m \in 1..n |-> 0]

-----------------------------------------------------------------------------
(* gf: multiplication in GF(2^8), gost3412.py:61-71 *)

RECURSIVE gfLoop(_, _, _)
gfLoop(a, b, c) ==
    IF b = 0 THEN c
    ELSE gfLoop(IF (a \div 128) % 2 = 1 THEN Xor(2 * a, 451) ELSE 2 * a,
                b \div 2,
                IF b % 2 = 1 THEN Xor(c, a) ELSE c)

\* gf with the reduction constant 0xC3 in place of 0x1C3
RECURSIVE gfLoop_C3(_, _, _)
gfLoop_C3(a, b, c) ==
    IF b = 0 THEN c
    ELSE gfLoop_C3(IF (a \div 128) % 2 = 1 THEN Xor(2 * a, 195) ELSE 2 * a,
                   b \div 2,
                   IF b % 2 = 1 THEN Xor(c, a) ELSE c)

gf_C3(a, b) == gfLoop_C3(a, b, 0)

gf(a, b) == gfLoop(a, b, 0)

\* the table the loops of gost3412.py:80-84 leave behind
GFInit == [x \in Byte |-> [y \in Byte |-> gf(x, y)]]

\* the table the loop of gost3412.py:56-58 leaves behind
RECURSIVE PIinvLoop(_, _)
PIinvLoop(tab, x) ==
    IF x > ByteMax THEN tab
    ELSE PIinvLoop([tab EXCEPT ![PI[x]] = x], x + 1)

PIinvInit == PIinvLoop([x \in Byte |-> 0], 0)

-----------------------------------------------------------------------------
(* L and Linv, gost3412.py:87-104.  Both shift the list they are given in  *)
(* place; the operators return the content of that list afterwards.  Both  *)
(* raise IndexError on a list shorter than 16 (LRaises); the actions test   *)
(* LRaises before they use the result.                                     *)

LRaises(b) == Len(b) < blocksize

\* inner loop of L: for i in range(14, -1, -1)
RECURSIVE LInner(_, _, _)
LInner(st, n, tab) ==
    IF n < 0 THEN st
    ELSE LInner([b |-> [st.b EXCEPT ![n + 2] = st.b[n + 1]],
                 t |-> Xor(st.t, tab[st.b[n + 1]][LC[n + 1]])],
                n - 1, tab)

LStep(b, tab) ==
    LET st == LInner([b |-> b, t |-> b[16]], 14, tab)
    IN  [st.b EXCEPT ![1] = st.t]

RECURSIVE LRounds(_, _, _)
LRounds(b, rounds, tab) ==
    IF rounds = 0 \/ LRaises(b) THEN b
    ELSE LRounds(LStep(b, tab), rounds - 1, tab)

L(b) == LRounds(b, 16, GF)

\* inner loop of Linv with its two statements in the other order
RECURSIVE LinvInner_swapped(_, _, _)
LinvInner_swapped(st, n, tab) ==
    IF n > 14 THEN st
    ELSE LinvInner_swapped(
             [b |-> [st.b EXCEPT ![n + 1] = st.b[n + 2]],
              t |-> Xor(st.t, tab[st.b[n + 1]][LC[n + 1]])],
             n + 1, tab)

\* inner loop of Linv: for i in range(15)
RECURSIVE LinvInner(_, _, _)
LinvInner(st, n, tab) ==
    IF n > 14 THEN st
    ELSE LET nb == [st.b EXCEPT ![n + 1] = st.b[n + 2]]
         IN  LinvInner([b |-> nb,
                        t |-> Xor(st.t, tab[nb[n + 1]][LC[n + 1]])],
                       n + 1, tab)

LinvStep(b, tab) ==
    LET st == LinvInner([b |-> b, t |-> b[1]], 0, tab)
    IN  [st.b EXCEPT ![16] = st.t]

RECURSIVE LinvRounds(_, _, _)
LinvRounds(b, rounds, tab) ==
    IF rounds = 0 \/ LRaises(b) THEN b
    ELSE LinvRounds(LinvStep(b, tab), rounds - 1, tab)

\* Linv with one round less
Linv_15(b) == LinvRounds(b, 15, GF)

Linv(b) == LinvRounds(b, 16, GF)

\* lp, gost3412.py:120-121
lp(b) == L([n \in 1..Len(b) |-> PI[b[n]]])

\* the list the loop of gost3412.py:112-117 leaves behind
CBlock(x) == [bytearray(16) EXCEPT ![16] = x]

CInit == [x \in 1..32 |-> LRounds(CBlock(x), 16, GFInit)]


-----------------------------------------------------------------------------
(* Inputs *)

KATKey == <<136, 153, 170, 187, 204, 221, 238, 255, 0, 17, 34, 51, 68, 85,
            102, 119, 254, 220, 186, 152, 118, 84, 50, 16, 1, 35, 69, 103,
            137, 171, 205, 239>>
KATPlain == <<17, 34, 51, 68, 85, 102, 119, 0, 255, 238, 221, 204, 187, 170,
              153, 136>>
KATCipher == <<127, 103, 157, 144, 190, 188, 36, 48, 90, 70, 141, 66, 185,
               212, 237, 205>>

KeyGen(s, n) == [m \in 1..n |-> (s * 101 + m * 37 + 11) % 256]

BlockGen(s, n) == [m \in 1..n |-> (s * 89 + m * 151 + s * m * 7 + 3) % 256]

Keys ==
    {KATKey} \cup {KeyGen(s, KEYSIZE) : s \in 1..MaxKeySeed}
             \cup {KeyGen(0, KEYSIZE - 1), KeyGen(0, KEYSIZE + 1)}

Blocks ==
    {KATPlain, KATCipher}
        \cup {BlockGen(s, blocksize) : s \in 0..MaxBlockSeed}
        \cup {BlockGen(0, blocksize - 1), BlockGen(0, blocksize + 1)}

\* inputs of the runs with two concurrent callers
ParKeys == {KATKey}
ParBlocks == {KATPlain, BlockGen(0, blocksize + 1)}

\* keys of the constructor runs: lengths 32, 32, 31, 33, 32, 32, 31, 33, ...
SchedKey(s) ==
    KeyGen(s, IF s % 4 = 2 THEN KEYSIZE - 1
              ELSE IF s % 4 = 3 THEN KEYSIZE + 1 ELSE KEYSIZE)

SchedKeys == {KATKey} \cup {SchedKey(s) : s \in 0..MaxSchedSeed}

LBlocks == {BlockGen(s, blocksize) : s \in 0..MaxLSeed}

-----------------------------------------------------------------------------
(* Module-level precalculations, gost3412.py:56-58, 80-84, 112-117 *)

\* PIinv[PI[x]] = x
FillPIinv ==
    /\ ipc = "PIinv"
    /\ ix <= ByteMax
    /\ PIinv' = [PIinv EXCEPT ![PI[ix]] = ix]
    /\ ix' = ix + 1
    /\ UNCHANGED <<GF, C, ipc, instvars, callvars, lvars>>

\* GF = [bytearray(256) for _ in xrange(256)]
AllocGF ==
    /\ ipc = "PIinv"
    /\ ix = ByteMax + 1
    /\ GF' = [x \in Byte |-> [y \in Byte |-> 0]]
    /\ ipc' = "GF"
    /\ ix' = 0
    /\ UNCHANGED <<PIinv, C, instvars, callvars, lvars>>

\* for y in xrange(256): GF[x][y] = gf(x, y); a bytearray takes only bytes
FillGFRow ==
    /\ ipc = "GF"
    /\ ix <= ByteMax
    /\ IF \A y \in Byte : gf(ix, y) \in Byte
       THEN /\ GF' = [GF EXCEPT ![ix] = [y \in Byte |-> gf(ix, y)]]
            /\ ipc' = ipc
            /\ ix' = ix + 1
       ELSE /\ GF' = [GF EXCEPT ![ix] =
                        [y \in Byte |->
                           IF \A z \in 0..y : gf(ix, z) \in Byte
                           THEN gf(ix, y) ELSE 0]]
            /\ ipc' = "ValueError"
            /\ ix' = ix
    /\ UNCHANGED <<PIinv, C, instvars, callvars, lvars>>

\* C = []
StartC ==
    /\ ipc = "GF"
    /\ ix = ByteMax + 1
    /\ C' = <<>>
    /\ ipc' = "C"
    /\ ix' = 1
    /\ UNCHANGED <<PIinv, GF, instvars, callvars, lvars>>

\* y = bytearray(16); y[15] = x; C.append(L(y))
AppendC ==
    /\ ipc = "C"
    /\ ix <= 32
    /\ C' = Append(C, L(CBlock(ix)))
    /\ ix' = ix + 1
    /\ UNCHANGED <<PIinv, GF, ipc, instvars, callvars, lvars>>

ImportDone ==
    /\ ipc = "C"
    /\ ix = 33
    /\ ipc' = "done"
    /\ UNCHANGED <<PIinv, GF, C, ix, instvars, callvars, lvars>>

-----------------------------------------------------------------------------
(* GOST3412Kuznechik.__init__, gost3412.py:129-144 *)

\* the key schedule appending kr1 before kr0
RECURSIVE Schedule_swapped(_, _, _, _, _)
Schedule_swapped(kr0, kr1, ii, jj, acc) ==
    IF ii = 4 THEN [raised |-> FALSE, ks |-> acc]
    ELSE IF jj = 8
         THEN Schedule_swapped(kr0, kr1, ii + 1, 0, acc \o <<kr1, kr0>>)
    ELSE LET x == strxor(C[8 * ii + jj + 1], kr0)
         IN  IF LRaises(x) THEN [raised |-> TRUE, ks |-> acc]
             ELSE Schedule_swapped(strxor(lp(x), kr1), kr0, ii, jj + 1, acc)

\* the two nested loops; 8 * ii + jj rounds are done, acc is self.ks
RECURSIVE Schedule(_, _, _, _, _)
Schedule(kr0, kr1, ii, jj, acc) ==
    IF ii = 4 THEN [raised |-> FALSE, ks |-> acc]
    ELSE IF jj = 8 THEN Schedule(kr0, kr1, ii + 1, 0, acc \o <<kr0, kr1>>)
    ELSE LET x == strxor(C[8 * ii + jj + 1], kr0)
         IN  IF LRaises(x) THEN [raised |-> TRUE, ks |-> acc]
             ELSE Schedule(strxor(lp(x), kr1), kr0, ii, jj + 1, acc)

init(k) ==
    LET kr0 == SubSeq(k, 1, Min(16, Len(k)))
        kr1 == SubSeq(k, 17, Len(k))
    IN  Schedule(kr0, kr1, 0, 0, <<kr0, kr1>>)

\* GOST3412Kuznechik(k): an exception leaves the caller without an instance
Construct(k) ==
    /\ ipc = "done"
    /\ ctor = "none"
    /\ key' = k
    /\ LET r == init(k)
       IN  IF r.raised
           THEN ctor' = "IndexError" /\ ks' = <<>>
           ELSE ctor' = "ok" /\ ks' = r.ks
    /\ UNCHANGED <<modvars, callvars, lvars>>

-----------------------------------------------------------------------------
(* GOST3412Kuznechik.encrypt / decrypt, gost3412.py:146-156 *)

\* the callers of the instance
Threads == DOMAIN pc

CanCall(t) ==
    /\ ctor = "ok"
    /\ pc[t] \in {"idle", "returned", "IndexError"}
    /\ ncalls < MaxCalls

\* entry of either method: blk = bytearray(blk)
Enter(t, o, b, p) ==
    /\ op' = [op EXCEPT ![t] = o]
    /\ arg' = [arg EXCEPT ![t] = b]
    /\ blk' = [blk EXCEPT ![t] = b]
    /\ i' = [i EXCEPT ![t] = IF o = "encrypt" THEN 0 ELSE 9]
    /\ ret' = [ret EXCEPT ![t] = <<>>]
    /\ orig' = [orig EXCEPT ![t] = p]
    /\ pc' = [pc EXCEPT ![t] = "loop"]
    /\ ncalls' = ncalls + 1
    /\ UNCHANGED <<modvars, instvars, lvars>>

Call(t, o, b) ==
    /\ CanCall(t)
    /\ Enter(t, o, b, <<>>)

\* the caller hands the bytes encrypt returned to decrypt
CallDecryptOfResult(t) ==
    /\ CanCall(t)
    /\ pc[t] = "returned"
    /\ op[t] = "encrypt"
    /\ Enter(t, "decrypt", ret[t], arg[t])

\* encrypt's loop body working in place on self.ks[i] instead of a copy
EncryptStep_inplace(t) ==
    /\ pc[t] = "loop"
    /\ op[t] = "encrypt"
    /\ i[t] < 9
    /\ LET x == strxor(ks[i[t] + 1], blk[t])
       IN  IF LRaises(x)
           THEN /\ pc' = [pc EXCEPT ![t] = "IndexError"]
                /\ UNCHANGED <<blk, i, ks>>
           ELSE /\ blk' = [blk EXCEPT ![t] = lp(x)]
                /\ ks' = [ks EXCEPT ![i[t] + 1] = lp(x)]
                /\ i' = [i EXCEPT ![t] = i[t] + 1]
                /\ pc' = pc
    /\ UNCHANGED <<modvars, key, ctor, op, arg, ret, orig, ncalls, lvars>>

\* blk = lp(bytearray(strxor(self.ks[i], blk)))
EncryptStep(t) ==
    /\ pc[t] = "loop"
    /\ op[t] = "encrypt"
    /\ i[t] < 9
    /\ LET x == strxor(ks[i[t] + 1], blk[t])
       IN  IF LRaises(x)
           THEN /\ pc' = [pc EXCEPT ![t] = "IndexError"]
                /\ UNCHANGED <<blk, i>>
           ELSE /\ blk' = [blk EXCEPT ![t] = lp(x)]
                /\ i' = [i EXCEPT ![t] = i[t] + 1]
                /\ pc' = pc
    /\ UNCHANGED <<modvars, instvars, op, arg, ret, orig, ncalls, lvars>>

\* return bytes(strxor(self.ks[9], blk))
EncryptReturn(t) ==
    /\ pc[t] = "loop"
    /\ op[t] = "encrypt"
    /\ i[t] = 9
    /\ ret' = [ret EXCEPT ![t] = strxor(ks[10], blk[t])]
    /\ pc' = [pc EXCEPT ![t] = "returned"]
    /\ UNCHANGED <<modvars, instvars, op, arg, blk, i, orig, ncalls, lvars>>

\* decrypt's loop body with the round key index one too low
DecryptStep_index(t) ==
    /\ pc[t] = "loop"
    /\ op[t] = "decrypt"
    /\ i[t] > 0
    /\ LET x == strxor(ks[i[t]], blk[t])
       IN  IF LRaises(x)
           THEN /\ pc' = [pc EXCEPT ![t] = "IndexError"]
                /\ UNCHANGED <<blk, i>>
           ELSE /\ blk' = [blk EXCEPT ![t] =
                             LET y == Linv(x)
                             IN  [n \in 1..Len(y) |-> PIinv[y[n]]]]
                /\ i' = [i EXCEPT ![t] = i[t] - 1]
                /\ pc' = pc
    /\ UNCHANGED <<modvars, instvars, op, arg, ret, orig, ncalls, lvars>>

\* blk = [PIinv[v] for v in Linv(bytearray(strxor(self.ks[i], blk)))]
DecryptStep(t) ==
    /\ pc[t] = "loop"
    /\ op[t] = "decrypt"
    /\ i[t] > 0
    /\ LET x == strxor(ks[i[t] + 1], blk[t])
       IN  IF LRaises(x)
           THEN /\ pc' = [pc EXCEPT ![t] = "IndexError"]
                /\ UNCHANGED <<blk, i>>
           ELSE /\ blk' = [blk EXCEPT ![t] =
                             LET y == Linv(x)
                             IN  [n \in 1..Len(y) |-> PIinv[y[n]]]]
                /\ i' = [i EXCEPT ![t] = i[t] - 1]
                /\ pc' = pc
    /\ UNCHANGED <<modvars, instvars, op, arg, ret, orig, ncalls, lvars>>

\* return bytes(strxor(self.ks[0], blk))
DecryptReturn(t) ==
    /\ pc[t] = "loop"
    /\ op[t] = "decrypt"
    /\ i[t] = 0
    /\ ret' = [ret EXCEPT ![t] = strxor(ks[1], blk[t])]
    /\ pc' = [pc EXCEPT ![t] = "returned"]
    /\ UNCHANGED <<modvars, instvars, op, arg, blk, i, orig, ncalls, lvars>>

-----------------------------------------------------------------------------
(* L and Linv called on a caller's bytearray, gost3412.py:87-104 *)

ApplyL ==
    /\ Len(lhist) < MaxLSteps
    /\ ~LRaises(lblk)
    /\ lblk' = L(lblk)
    /\ lhist' = Append(lhist, [f |-> "L", in |-> lblk])
    /\ UNCHANGED <<modvars, instvars, callvars>>

ApplyLinv ==
    /\ Len(lhist) < MaxLSteps
    /\ ~LRaises(lblk)
    /\ lblk' = Linv(lblk)
    /\ lhist' = Append(lhist, [f |-> "Linv", in |-> lblk])
    /\ UNCHANGED <<modvars, instvars, callvars>>

-----------------------------------------------------------------------------
(* Specifications *)

NoInstance ==
    /\ key = <<>>
    /\ ks = <<>>
    /\ ctor = "none"

\* the callers in T have made no call yet
NoCalls(T) ==
    /\ pc = [t \in T |-> "idle"]
    /\ op = [t \in T |-> "none"]
    /\ arg = [t \in T |-> <<>>]
    /\ blk = [t \in T |-> <<>>]
    /\ i = [t \in T |-> 0]
    /\ ret = [t \in T |-> <<>>]
    /\ orig = [t \in T |-> <<>>]
    /\ ncalls = 0

NoLRun ==
    /\ lblk = <<>>
    /\ lhist = <<>>


Imported ==
    /\ PIinv = PIinvInit
    /\ GF = GFInit
    /\ C = CInit
    /\ ipc = "done"
    /\ ix = 33

\* one instance of the cipher used by one caller
Init ==
    /\ Imported
    /\ NoInstance
    /\ NoCalls({1})
    /\ NoLRun

Step ==
    \/ \E t \in Threads : CallDecryptOfResult(t)
    \/ \E t \in Threads : EncryptStep(t)
    \/ \E t \in Threads : EncryptReturn(t)
    \/ \E t \in Threads : DecryptStep(t)
    \/ \E t \in Threads : DecryptReturn(t)

Next ==
    \/ \E k \in Keys : Construct(k)
    \/ \E t \in Threads, o \in {"encrypt", "decrypt"}, b \in Blocks :
           Call(t, o, b)
    \/ Step

Spec == Init /\ [][Next]_vars

\* one instance of the cipher shared by two callers
InitPar ==
    /\ Imported
    /\ NoInstance
    /\ NoCalls({1, 2})
    /\ NoLRun

NextPar ==
    \/ \E k \in ParKeys : Construct(k)
    \/ \E t \in Threads, o \in {"encrypt", "decrypt"}, b \in ParBlocks :
           Call(t, o, b)
    \/ Step

SpecPar == InitPar /\ [][NextPar]_vars

\* the constructor alone, on many keys
NextKS == \E k \in SchedKeys : Construct(k)

SpecKS == Init /\ [][NextKS]_vars

\* the import of the module up to the creation of GF
InitPIinv ==
    /\ PIinv = [x \in Byte |-> 0]
    /\ GF = <<>>
    /\ C = <<>>
    /\ ipc = "PIinv"
    /\ ix = 0
    /\ NoInstance
    /\ NoCalls({1})
    /\ NoLRun

NextPIinv ==
    \/ FillPIinv
    \/ AllocGF

SpecPIinv == InitPIinv /\ [][NextPIinv]_vars

\* the import of the module from the creation of GF on
InitTables ==
    /\ PIinv = PIinvInit
    /\ GF = [x \in Byte |-> [y \in Byte |-> 0]]
    /\ C = <<>>
    /\ ipc = "GF"
    /\ ix = 0
    /\ NoInstance
    /\ NoCalls({1})
    /\ NoLRun

NextTables ==
    \/ FillGFRow
    \/ StartC
    \/ AppendC
    \/ ImportDone

SpecTables == InitTables /\ [][NextTables]_vars

\* L and Linv applied to blocks after the import
InitL ==
    /\ Imported
    /\ NoInstance
    /\ NoCalls({1})
    /\ lblk \in LBlocks
    /\ lhist = <<>>

NextL ==
    \/ ApplyL
    \/ ApplyLinv

SpecL == InitL /\ [][NextL]_vars

-----------------------------------------------------------------------------
(* Properties *)

\* XOR of two blocks of 16 bytes
XorBlock(a, b) == [n \in 1..blocksize |-> Xor(a[n], b[n])]

\* substitution and inverse substitution of every byte of a block
Sub(b) == [n \in 1..Len(b) |-> PI[b[n]]]
InvSub(b) == [n \in 1..Len(b) |-> PIinv[b[n]]]

Finished(t) == pc[t] \in {"returned", "IndexError"}

\* C1: on an instance built from a 32-byte key, decrypt applied to the
\* result of encrypt on a 16-byte block returns that block.
C1_RoundTrip ==
    \A t \in Threads :
        (/\ pc[t] = "returned"
         /\ op[t] = "decrypt"
         /\ Len(orig[t]) = blocksize
         /\ Len(key) = KEYSIZE)
            => ret[t] = orig[t]

C1_Witness ==
    \E t \in Threads :
        /\ pc[t] = "returned"
        /\ op[t] = "decrypt"
        /\ orig[t] = BlockGen(1, blocksize)
        /\ key = KeyGen(1, KEYSIZE)
        /\ arg[t] # orig[t]
        /\ ret[t] = orig[t]

\* C2: with the key 8899aabb...abcdef, encrypt of 11223344...aa9988 returns
\* 7f679d90...d4edcd, and decrypt of 7f679d90...d4edcd returns 11223344...aa9988.
C2_KnownAnswer ==
    \A t \in Threads :
        (key = KATKey /\ pc[t] = "returned")
            => /\ (op[t] = "encrypt" /\ arg[t] = KATPlain) => ret[t] = KATCipher
               /\ (op[t] = "decrypt" /\ arg[t] = KATCipher) => ret[t] = KATPlain

\* C3: the constructor called with a key that is not 32 bytes long fails,
\* and the caller gets no instance with round keys.
C3_InvalidKeyLength ==
    (ctor # "none" /\ Len(key) # KEYSIZE)
        => (ctor # "ok" /\ ks = <<>>)

\* C4: encrypt and decrypt called with a block that is not 16 bytes long
\* fail and return nothing.
C4_InvalidBlockLength ==
    \A t \in Threads :
        (Finished(t) /\ Len(arg[t]) # blocksize)
            => (pc[t] # "returned" /\ ret[t] = <<>>)

\* the state (left, right) after rounds 1..n of
\* (left, right) := (LP(left XOR C[r]) XOR right, left)
RECURSIVE FeistelIter(_, _, _, _)
FeistelIter(left, right, r, n) ==
    IF r > n \/ Len(left) # blocksize THEN <<left, right>>
    ELSE FeistelIter(XorBlock(L(Sub(XorBlock(left, C[r]))), right), left,
                     r + 1, n)

\* C5: the constructor called with a 32-byte key yields 10 round keys of 16
\* bytes: the two halves of the key, then for g = 1..4 the pair (left, right)
\* after 8 * g Feistel rounds.
C5_KeySchedule ==
    (ctor # "none" /\ Len(key) = KEYSIZE)
        => /\ ctor = "ok"
           /\ Len(ks) = 10
           /\ \A n \in 1..10 : Len(ks[n]) = blocksize
           /\ \A n \in 1..10 : \A m \in 1..blocksize : ks[n][m] \in Byte
           /\ ks[1] = SubSeq(key, 1, 16)
           /\ ks[2] = SubSeq(key, 17, 32)
           /\ \A g \in 1..4 :
                  <<ks[2 * g + 1], ks[2 * g + 2]>>
                      = FeistelIter(ks[1], ks[2], 1, 8 * g)

C5_Witness ==
    /\ ctor = "ok"
    /\ key = SchedKey(5)
    /\ Len(key) = KEYSIZE
    /\ Len(ks) = 10
    /\ ks[3] # ks[1]
    /\ ks[10] # ks[8]

\* C6: once the instance exists, no step of any call changes its round keys
\* or the module tables GF, PIinv and C, and no step changes the block a
\* caller passed in.
C6_Frame ==
    [][ctor = "ok"
          => /\ ks' = ks
             /\ key' = key
             /\ GF' = GF
             /\ PIinv' = PIinv
             /\ C' = C
             /\ \A t \in Threads :
                    \/ arg'[t] = arg[t]
                    \/ pc[t] # "loop" /\ pc'[t] = "loop"]_vars

C6_Witness ==
    /\ ctor = "ok"
    /\ pc[1] = "loop" /\ op[1] = "encrypt" /\ i[1] = 5
    /\ pc[2] = "loop" /\ op[2] = "decrypt" /\ i[2] = 4
    /\ blk[1] # arg[1]
    /\ blk[2] # arg[2]
    /\ GF = GFInit /\ PIinv = PIinvInit /\ C = CInit

\* decrypt as the claim C7 words it: first XOR with ks[9], then rounds 9..1
RECURSIVE DecryptLoop(_, _, _)
DecryptLoop(rk, b, n) ==
    IF n < 1 \/ Len(b) # blocksize THEN b
    ELSE DecryptLoop(rk, InvSub(Linv(XorBlock(b, rk[n + 1]))), n - 1)

DecryptAsClaimed(rk, b) ==
    XorBlock(DecryptLoop(rk, XorBlock(b, rk[10]), 9), rk[1])

DecryptAmended(rk, b) ==
    XorBlock(DecryptLoop(rk, b, 9), rk[1])

ValidDecrypt(t) ==
    /\ pc[t] = "returned"
    /\ op[t] = "decrypt"
    /\ Len(arg[t]) = blocksize
    /\ Len(key) = KEYSIZE

\* C7 as claimed: decrypt first XORs the block with ks[9], then for i = 9
\* down to 1 sets block := PIinv(Linv(block XOR ks[i])), then returns
\* block XOR ks[0].
C7_AsClaimed ==
    \A t \in Threads :
        ValidDecrypt(t) => ret[t] = DecryptAsClaimed(ks, arg[t])

\* C7 amended: decrypt of a 16-byte block, for i = 9 down to 1, sets
\* block := PIinv(Linv(block XOR ks[i])) and then returns block XOR ks[0];
\* there is no XOR with ks[9] before the loop.
C7_Decrypt ==
    \A t \in Threads :
        ValidDecrypt(t) => ret[t] = DecryptAmended(ks, arg[t])

C7_Witness ==
    \E t \in Threads :
        /\ ValidDecrypt(t)
        /\ arg[t] = KATCipher
        /\ key = KATKey
        /\ ret[t] = DecryptAmended(ks, arg[t])
        /\ ret[t] # DecryptAsClaimed(ks, arg[t])

\* content of the bytearray after the n-th call of a transform run
LAfter(n) == IF n = Len(lhist) THEN lblk ELSE lhist[n + 1].in

\* C8: Linv applied to the result of L, and L applied to the result of
\* Linv, give back the 16-byte block the first of the two was applied to.
C8_LinvL ==
    \A n \in 1..(Len(lhist) - 1) :
        lhist[n].f # lhist[n + 1].f => LAfter(n + 1) = lhist[n].in

C8_Witness ==
    /\ Len(lhist) = 2
    /\ lhist[1].f = "Linv"
    /\ lhist[2].f = "L"
    /\ lhist[1].in = BlockGen(7, blocksize)
    /\ lhist[2].in # lhist[1].in
    /\ lblk = lhist[1].in

\* C9: when the loop that builds PIinv has run, PI is a bijection on 0..255
\* and PIinv[PI[x]] = x and PI[PIinv[x]] = x for every byte x; PIinv is then
\* the table the other specifications start from.
C9_PIBijection ==
    (ipc = "GF" \/ (ipc = "PIinv" /\ ix = ByteMax + 1))
        => /\ {PI[x] : x \in Byte} = Byte
           /\ \A x \in Byte : PIinv[x] \in Byte
           /\ \A x \in Byte : PIinv[PI[x]] = x
           /\ \A x \in Byte : PI[PIinv[x]] = x
           /\ PIinv = PIinvInit

C9_Witness ==
    /\ ipc = "PIinv"
    /\ ix = ByteMax + 1
    /\ PIinv[PI[200]] = 200
    /\ PIinv # [x \in Byte |-> 0]

\* C10: gf(a, b) is a byte, gf(a, b) = gf(b, a), gf(a, 0) = 0 and
\* gf(a, 1) = a for all bytes a and b, and the table entry GF[a][b] is
\* gf(a, b): checked for row a when the import has just filled it, and for
\* the whole table, which is the one the other specifications start from,
\* once the import has filled every row.
C10_FieldAlgebra ==
    /\ ipc # "ValueError"
    /\ (ipc = "GF" /\ ix > 0)
        => LET a == ix - 1
           IN  /\ gf(a, 0) = 0
               /\ gf(a, 1) = a
               /\ \A b \in Byte :
                      /\ gf(a, b) \in Byte
                      /\ gf(a, b) = gf(b, a)
                      /\ GF[a][b] = gf(a, b)
    /\ (ipc \in {"C", "done"})
        => \A a \in Byte :
               /\ GF[a][0] = 0
               /\ GF[a][1] = a
               /\ \A b \in Byte : GF[a][b] \in Byte /\ GF[a][b] = GF[b][a]
    /\ (ipc \in {"C", "done"}) => GF = GFInit

C10_Witness ==
    /\ ipc = "GF"
    /\ ix = 3
    /\ GF[2][199] = gf(199, 2)
    /\ GF[2][199] \notin {0, 2, 199}
    /\ GF[3][199] = 0

=============================================================================
